---- MODULE Spec2Model ----
(***************************************************************************)
(* CatchArXiv ranking core (src/catcharxiv/ranker.py).                     *)
(*                                                                         *)
(* Text is a sequence of one-character strings.  Real numbers are fixed    *)
(* point integers: IDF weights and raw scores in thousandths (IdfScale),   *)
(* normalised and final scores in ten-thousandths (ScoreScale), every      *)
(* quotient rounded down.  The md5 fingerprint is modelled by the byte     *)
(* string it digests (the concatenation of the files that exist).          *)
(***************************************************************************)
EXTENDS Integers, Sequences, FiniteSets, TLC

VARIABLES files, cacheFile, call

vars == <<files, cacheFile, call>>

(***************************************************************************)
(* Bounds and fixed-point scales                                           *)
(***************************************************************************)
MaxTopN == 3

IdfScale == 1000

ScoreScale == 10000

(***************************************************************************)
(* Text                                                                    *)
(***************************************************************************)
NL == "\n"

Whitespace == {" ", NL}

\* str.lower() on the alphabet the model uses
LowerChar(c) ==
    CASE c = "D" -> "d"
      [] c = "M" -> "m"
      [] c = "H" -> "h"
      [] OTHER -> c

Lower(s) == [i \in 1..Len(s) |-> LowerChar(s[i])]

\* str.strip()
RECURSIVE LStrip(_)
LStrip(s) == IF s # <<>> /\ Head(s) \in Whitespace THEN LStrip(Tail(s)) ELSE s

RECURSIVE RStrip(_)
RStrip(s) ==
    IF s # <<>> /\ s[Len(s)] \in Whitespace
    THEN RStrip(SubSeq(s, 1, Len(s) - 1))
    ELSE s

Strip(s) == RStrip(LStrip(s))

\* the `in` operator on strings: kw occurs in text as a substring
Contains(kw, text) ==
    \E i \in 0..(Len(text) - Len(kw)) : SubSeq(text, i + 1, i + Len(kw)) = kw

\* iteration over the lines of a text file
RECURSIVE SplitLines(_, _)
SplitLines(bytes, cur) ==
    IF bytes = <<>> THEN (IF cur = <<>> THEN <<>> ELSE <<cur>>)
    ELSE IF Head(bytes) = NL
         THEN <<Append(cur, NL)>> \o SplitLines(Tail(bytes), <<>>)
         ELSE SplitLines(Tail(bytes), Append(cur, Head(bytes)))

(***************************************************************************)
(* The data directory: keywords.txt and research_description.txt           *)
(***************************************************************************)
NoFile == [exists |-> FALSE, bytes |-> <<>>]

File(b) == [exists |-> TRUE, bytes |-> b]

\* "DM\n# c\n\n h0 \n"
KwFileA == File(<<"D", "M", NL, "#", " ", "c", NL, NL, " ", "h", "0", " ", NL>>)

\* "dm\n"
KwFileB == File(<<"d", "m", NL>>)

\* "x"
DescFileX == File(<<"x">>)

Configs ==
    { [keywords |-> KwFileB, description |-> NoFile],
      [keywords |-> KwFileB, description |-> DescFileX],
      [keywords |-> NoFile, description |-> DescFileX] }

compute_config_hash(fs) ==
    (IF fs.keywords.exists THEN fs.keywords.bytes ELSE <<>>)
        \o (IF fs.description.exists THEN fs.description.bytes ELSE <<>>)

RECURSIVE KeepKeywords(_)
KeepKeywords(lines) ==
    IF lines = <<>> THEN <<>>
    ELSE LET line == Strip(Head(lines))
         IN  IF line # <<>> /\ Head(line) # "#"
             THEN <<Lower(line)>> \o KeepKeywords(Tail(lines))
             ELSE KeepKeywords(Tail(lines))

load_keywords(fs) ==
    IF ~fs.keywords.exists THEN <<>>
    ELSE KeepKeywords(SplitLines(fs.keywords.bytes, <<>>))

(***************************************************************************)
(* Papers                                                                  *)
(***************************************************************************)
PaperIds == {"p1", "p2", "p3"}

Title(id) ==
    CASE id = "p1" -> <<"D", "M", " ", "x">>
      [] id = "p2" -> <<"x">>
      [] id = "p3" -> <<"y">>

Abstract(id) ==
    CASE id = "p1" -> <<"x">>
      [] id = "p2" -> <<"h", "0", " ", "d", "m">>
      [] id = "p3" -> <<"x">>

\* the paper lists handed to the ranking: sequences of distinct papers
Corpora ==
    { <<>>, <<"p1">>, <<"p3", "p2">>, <<"p1", "p2", "p3">>, <<"p3", "p2", "p1">> }

(***************************************************************************)
(* TF-IDF                                                                  *)
(***************************************************************************)
\* math.log(n / d) in thousandths, rounded to nearest, for 1 <= n <= 4, 1 <= d <= 5
LogRatio(n, d) ==
    LET ln == <<0, 693, 1099, 1386, 1609>>
    IN  ln[n] - ln[d]

Count(S) == Cardinality(S)

\* idf[kw] = log(n_papers / (1 + doc_freq)) + 1
compute_idf(papers, keywords) ==
    LET n_papers == Len(papers)
        doc_freq(kw) ==
            Count({i \in 1..n_papers :
                     Contains(kw, Lower(Title(papers[i]) \o <<" ">> \o Abstract(papers[i])))})
    IN  [k \in 1..Len(keywords) |->
            IF n_papers = 0 THEN IdfScale
            ELSE LogRatio(n_papers, 1 + doc_freq(keywords[k])) + IdfScale]

RECURSIVE SumTo(_, _)
SumTo(f, n) == IF n = 0 THEN 0 ELSE f[n] + SumTo(f, n - 1)

raw_score(id, keywords, idf, title_weight) ==
    LET title == Lower(Title(id))
        abstract == Lower(Abstract(id))
        term == [k \in 1..Len(keywords) |->
                    IF Contains(keywords[k], title) THEN idf[k] * title_weight
                    ELSE IF Contains(keywords[k], abstract) THEN idf[k]
                    ELSE 0]
    IN  SumTo(term, Len(keywords))

RECURSIVE MaxOf(_)
MaxOf(s) ==
    IF Len(s) = 1 THEN s[1]
    ELSE LET m == MaxOf(Tail(s)) IN IF s[1] >= m THEN s[1] ELSE m

RECURSIVE MinOf(_)
MinOf(s) ==
    IF Len(s) = 1 THEN s[1]
    ELSE LET m == MinOf(Tail(s)) IN IF s[1] <= m THEN s[1] ELSE m

Scores(ranked) == [i \in 1..Len(ranked) |-> ranked[i][2]]

Ids(ranked) == [i \in 1..Len(ranked) |-> ranked[i][1]]

\* list.sort(key=lambda x: x[1], reverse=True): stable, descending
RECURSIVE InsertDesc(_, _)
InsertDesc(sorted, e) ==
    IF sorted = <<>> THEN <<e>>
    ELSE IF Head(sorted)[2] >= e[2]
         THEN <<Head(sorted)>> \o InsertDesc(Tail(sorted), e)
         ELSE <<e>> \o sorted

RECURSIVE SortDesc(_)
SortDesc(s) ==
    IF s = <<>> THEN <<>>
    ELSE InsertDesc(SortDesc(SubSeq(s, 1, Len(s) - 1)), s[Len(s)])

normalize(s, max_score) ==
    IF max_score > 0 THEN (s * ScoreScale) \div max_score ELSE 0

\* the ranking normalised by the sum of the raw scores instead of their maximum
rank_by_similarity_sum(papers, keywords, title_weight) ==
    IF papers = <<>> \/ keywords = <<>>
    THEN [i \in 1..Len(papers) |-> <<papers[i], 0>>]
    ELSE LET idf == compute_idf(papers, keywords)
             raw_scores == [i \in 1..Len(papers) |->
                               <<papers[i], raw_score(papers[i], keywords, idf, title_weight)>>]
             total == SumTo(Scores(raw_scores), Len(papers))
             ranked == [i \in 1..Len(papers) |->
                           <<papers[i], normalize(raw_scores[i][2], total)>>]
         IN  SortDesc(ranked)

rank_by_similarity(papers, keywords, title_weight) ==
    IF papers = <<>> \/ keywords = <<>>
    THEN [i \in 1..Len(papers) |-> <<papers[i], 0>>]
    ELSE LET idf == compute_idf(papers, keywords)
             raw_scores == [i \in 1..Len(papers) |->
                               <<papers[i], raw_score(papers[i], keywords, idf, title_weight)>>]
             max_score == MaxOf(Scores(raw_scores))
             ranked == [i \in 1..Len(papers) |->
                           <<papers[i], normalize(raw_scores[i][2], max_score)>>]
         IN  SortDesc(ranked)

(***************************************************************************)
(* JSON values                                                             *)
(***************************************************************************)
Null == [t |-> "null", v |-> 0]

Num(n) == [t |-> "num", v |-> n]

Str(s) == [t |-> "str", v |-> s]

List(l) == [t |-> "list", v |-> l]

Dict(d) == [t |-> "dict", v |-> d]

EmptyDict == Dict(<<>>)

IsDict(x) == x.t = "dict"

IsNum(x) == x.t = "num"

\* dict.get(key, default) on a mapping
Get(d, key, default) == IF key \in DOMAIN d THEN d[key] ELSE default

\* d[key] = val
Put(d, key, val) == [k \in DOMAIN d \cup {key} |-> IF k = key THEN val ELSE d[k]]

\* truth value of a JSON value in an `if`
Truthy(x) ==
    CASE x.t = "null" -> FALSE
      [] x.t = "num" -> x.v # 0
      [] OTHER -> x.v # <<>>

(***************************************************************************)
(* Score cache (data/claude_cache.json)                                    *)
(***************************************************************************)
HashKey == "_config_hash"

NoCacheFile == [kind |-> "absent", data |-> <<>>]

CorruptCacheFile == [kind |-> "corrupt", data |-> <<>>]

JsonCacheFile(d) == [kind |-> "json", data |-> d]

Raised == [ok |-> FALSE, cache |-> <<>>]

Loaded(c) == [ok |-> TRUE, cache |-> c]

\* loading without the fingerprint comparison
load_cache_unchecked(file, fs) ==
    IF file.kind = "absent" THEN Loaded(<<>>)
    ELSE IF file.kind = "corrupt" THEN Raised
    ELSE Loaded(file.data)

\* json.load raises on a file that does not parse; nothing catches it
load_cache(file, fs) ==
    IF file.kind = "absent" THEN Loaded(<<>>)
    ELSE IF file.kind = "corrupt" THEN Raised
    ELSE IF Get(file.data, HashKey, Null) # Str(compute_config_hash(fs))
         THEN Loaded(<<>>)
         ELSE Loaded(file.data)

\* saving only the structured records, dropping bare scores of the old format
save_cache_structured(cache, fs) ==
    JsonCacheFile(Put([k \in {k \in DOMAIN cache : IsDict(cache[k])} |-> cache[k]],
                      HashKey, Str(compute_config_hash(fs))))

save_cache(cache, fs) ==
    JsonCacheFile(Put(cache, HashKey, Str(compute_config_hash(fs))))

(***************************************************************************)
(* The external scoring service and the parsing of its answer.  A response *)
(* text is a sequence of tokens: the two braces, free text without braces, *)
(* the key of a member ("key":) and a value that is not an object (number, *)
(* string, list).  The commas between members are not written.             *)
(***************************************************************************)
Tok(k) == [k |-> k, key |-> "", val |-> Null]

Txt == Tok("txt")

LBrace == Tok("{")

RBrace == Tok("}")

Key(key) == [k |-> "key", key |-> key, val |-> Null]

Atom(val) == [k |-> "atom", key |-> "", val |-> val]

\* the order in which an object's members are written
KeyOrder == <<"keywords", "score", "summary">>

\* the text of a JSON value; an object is written with its braces
ValueText(val) ==
    IF IsDict(val)
    THEN LET Member(i) == IF KeyOrder[i] \in DOMAIN val.v
                          THEN <<Key(KeyOrder[i]), Atom(val.v[KeyOrder[i]])>>
                          ELSE <<>>
         IN  <<LBrace>> \o Member(1) \o Member(2) \o Member(3) \o <<RBrace>>
    ELSE <<Atom(val)>>

\* the text of the member "key": val
Pair(key, val) == <<Key(key)>> \o ValueText(val)

NoMatch == [found |-> FALSE, text |-> <<>>]

\* the search with a non-greedy pattern: first "{" to the first "}" after it
re_search_lazy(text) ==
    LET opens == {i \in 1..Len(text) : text[i].k = "{"}
    IN  IF opens = {} THEN NoMatch
        ELSE LET first == CHOOSE i \in opens : \A o \in opens : i <= o
                 closes == {j \in 1..Len(text) : j > first /\ text[j].k = "}"}
             IN  IF closes = {} THEN NoMatch
                 ELSE LET last == CHOOSE j \in closes : \A c \in closes : j <= c
                      IN  [found |-> TRUE, text |-> SubSeq(text, first, last)]

\* re.search(r'\{.*\}', text, re.DOTALL): first "{" to the last "}" after it
re_search(text) ==
    LET opens == {i \in 1..Len(text) : text[i].k = "{"}
    IN  IF opens = {} THEN NoMatch
        ELSE LET first == CHOOSE i \in opens : \A o \in opens : i <= o
                 closes == {j \in 1..Len(text) : j > first /\ text[j].k = "}"}
             IN  IF closes = {} THEN NoMatch
                 ELSE LET last == CHOOSE j \in closes : \A c \in closes : j >= c
                      IN  [found |-> TRUE, text |-> SubSeq(text, first, last)]

DecodeError == [ok |-> FALSE, dict |-> <<>>]

\* the JSON decoder reading the members of an object from pos on, up to
\* and with its closing brace; a later member with the same key replaces an
\* earlier one; a value is a number, string or list, or an object in turn
RECURSIVE parse_object(_, _, _)
parse_object(text, pos, members) ==
    IF pos > Len(text) THEN [ok |-> FALSE, val |-> Null, next |-> pos]
    ELSE IF text[pos].k = "}" THEN [ok |-> TRUE, val |-> Dict(members), next |-> pos + 1]
    ELSE IF text[pos].k # "key" \/ pos + 1 > Len(text)
    THEN [ok |-> FALSE, val |-> Null, next |-> pos]
    ELSE IF text[pos + 1].k = "atom"
    THEN parse_object(text, pos + 2, Put(members, text[pos].key, text[pos + 1].val))
    ELSE IF text[pos + 1].k = "{"
    THEN LET inner == parse_object(text, pos + 2, <<>>)
         IN  IF inner.ok
             THEN parse_object(text, inner.next, Put(members, text[pos].key, inner.val))
             ELSE inner
    ELSE [ok |-> FALSE, val |-> Null, next |-> pos]

\* json.loads on a matched text (it starts with "{"): one object, and
\* nothing after it
json_loads(text) ==
    LET object == parse_object(text, 2, <<>>)
    IN  IF object.ok /\ object.next = Len(text) + 1
        THEN [ok |-> TRUE, dict |-> object.val.v]
        ELSE DecodeError

\* lines 267-276: the try block around the search and the decoding
parse_response(text) ==
    LET json_match == re_search(text)
    IN  IF json_match.found THEN json_loads(json_match.text) ELSE DecodeError

\* what the service may put under one index of its answer
FullResult ==
    Dict([score |-> Num(80), keywords |-> List(<<<<"d", "m">>>>), summary |-> Str(<<"s">>)])

ScoreOnlyResult == Dict([score |-> Num(-10)])

BareResult == Num(50)

TextResult == Str(<<"n", "a">>)

Absent == "absent"

NumericChoices == {"absent", "full"}

ResultValue(c) ==
    CASE c = "full" -> FullResult
      [] c = "scoreonly" -> ScoreOnlyResult
      [] c = "bare" -> BareResult
      [] c = "text" -> TextResult

RECURSIVE Members(_, _)
Members(choice, i) ==
    IF i > Len(choice) THEN <<>>
    ELSE (IF choice[i] = Absent THEN <<>> ELSE Pair(ToString(i), ResultValue(choice[i])))
             \o Members(choice, i + 1)

ObjectText(choice) == <<LBrace>> \o Members(choice, 1) \o <<RBrace>>

\* an object, cut off before its closing brace
TruncatedText == <<LBrace>> \o Pair("1", FullResult)

\* a complete object, then free text and a second, empty object
TwoObjectsText == <<LBrace>> \o Pair("1", FullResult) \o <<RBrace, Txt, LBrace, RBrace>>

\* a complete object, then free text and a member outside it
MemberAfterText == <<LBrace>> \o Pair("1", BareResult) \o <<RBrace, Txt>> \o Pair("2", FullResult)

\* answers that hold no JSON object, or one that does not decode
MalformedTexts ==
    { <<>>, <<Txt>>, <<RBrace, Txt, LBrace>>, TruncatedText, <<LBrace, Txt, RBrace>>,
      TwoObjectsText, MemberAfterText }

\* a member with no object around it: the search finds the member's value,
\* which decodes
StrayMemberText == Pair("1", FullResult)

\* answers with a score alone, a bare number or a text under some index
OtherChoices(n) ==
    { [i \in 1..n |-> "scoreonly"],
      [i \in 1..n |-> IF i = 1 THEN "full" ELSE IF i = 2 THEN Absent ELSE "scoreonly"],
      [i \in 1..n |-> "bare"],
      [i \in 1..n |-> IF i = 1 THEN "text" ELSE "full"],
      [i \in 1..n |-> IF i = n THEN "text" ELSE "full"] }

TransportFailure == [ok |-> FALSE, text |-> <<>>]

Answer(text) == [ok |-> TRUE, text |-> text]

NoRequest == [ok |-> TRUE, text |-> <<>>]

\* the answers to a request about n papers
Responses(n) ==
    {TransportFailure}
        \cup {Answer(t) : t \in MalformedTexts \cup {StrayMemberText}}
        \cup {Answer(ObjectText(c)) : c \in [1..n -> NumericChoices]}
        \cup {Answer(ObjectText(c)) : c \in OtherChoices(n)}
        \cup {Answer(<<Txt>> \o ObjectText(c) \o <<Txt>>) : c \in [1..n -> {"full"}]}

(***************************************************************************)
(* rank_with_claude                                                        *)
(***************************************************************************)
DefaultTitleWeight == 3

\* the index a slice bound n denotes in a list of length len
SliceIndex(n, len) ==
    IF n < 0 THEN (IF len + n < 0 THEN 0 ELSE len + n)
    ELSE IF n > len THEN len ELSE n

\* lst[:n]
Prefix(lst, n) == SubSeq(lst, 1, SliceIndex(n, Len(lst)))

\* the rest taken one place too far: lst[n + 1:]
Suffix_skip(lst, n) == SubSeq(lst, SliceIndex(n, Len(lst)) + 2, Len(lst))

\* lst[n:]
Suffix(lst, n) == SubSeq(lst, SliceIndex(n, Len(lst)) + 1, Len(lst))

\* v / 100.0
Percent(v) == (v * ScoreScale) \div 100

\* lines 206-213: the score a cache entry stands for (dict or bare number)
cached_score(cached) ==
    IF IsDict(cached) THEN Get(cached.v, "score", Num(50)) ELSE cached

\* lines 204-216: candidates whose id is in the cache, with the stored score
RECURSIVE cached_part(_, _)
cached_part(candidates, cache) ==
    IF candidates = <<>> THEN <<>>
    ELSE LET paper == Head(candidates)[1]
         IN  (IF paper \in DOMAIN cache
              THEN <<<<paper, Percent(cached_score(cache[paper]).v)>>>>
              ELSE <<>>) \o cached_part(Tail(candidates), cache)

\* the split with entries of the old format counted as not cached
RECURSIVE uncached_part_legacy(_, _)
uncached_part_legacy(candidates, cache) ==
    IF candidates = <<>> THEN <<>>
    ELSE (IF Head(candidates)[1] \in DOMAIN cache /\ IsDict(cache[Head(candidates)[1]])
          THEN <<>> ELSE <<Head(candidates)>>)
             \o uncached_part_legacy(Tail(candidates), cache)

\* lines 204-216: candidates whose id is not in the cache, with the TF-IDF score
RECURSIVE uncached_part(_, _)
uncached_part(candidates, cache) ==
    IF candidates = <<>> THEN <<>>
    ELSE (IF Head(candidates)[1] \in DOMAIN cache THEN <<>> ELSE <<Head(candidates)>>)
             \o uncached_part(Tail(candidates), cache)

\* a stored score that is not a number makes the division at 211/213 raise
cached_type_error(candidates, cache) ==
    \E i \in 1..Len(candidates) :
        /\ candidates[i][1] \in DOMAIN cache
        /\ ~IsNum(cached_score(cache[candidates[i][1]]))

\* the loop looking the results up by the 0-based index: results_dict.get(str(i), {})
RECURSIVE apply_scores_zero_based(_, _, _, _, _)
apply_scores_zero_based(uncached_papers, i, results_dict, cache, claude_ranked) ==
    IF i > Len(uncached_papers)
    THEN [ok |-> TRUE, cache |-> cache, claude_ranked |-> claude_ranked]
    ELSE LET paper == uncached_papers[i][1]
             result == Get(results_dict, ToString(i - 1), EmptyDict)
             score == IF IsDict(result) THEN Get(result.v, "score", Num(50)) ELSE result
             kws == IF IsDict(result) THEN Get(result.v, "keywords", List(<<>>)) ELSE List(<<>>)
             summary == IF IsDict(result) THEN Get(result.v, "summary", Str(<<>>)) ELSE Str(<<>>)
             cache2 == Put(cache, paper,
                           Dict([score |-> score, keywords |-> kws, summary |-> summary]))
         IN  IF ~IsNum(score)
             THEN [ok |-> FALSE, cache |-> cache2, claude_ranked |-> claude_ranked]
             ELSE apply_scores_zero_based(uncached_papers, i + 1, results_dict, cache2,
                                          Append(claude_ranked, <<paper, Percent(score.v)>>))

\* lines 280-293: the record and the score for the uncached papers from i on;
\* a score that is not a number raises at line 293, after the in-memory
\* cache was given the record
RECURSIVE apply_scores(_, _, _, _, _)
apply_scores(uncached_papers, i, results_dict, cache, claude_ranked) ==
    IF i > Len(uncached_papers)
    THEN [ok |-> TRUE, cache |-> cache, claude_ranked |-> claude_ranked]
    ELSE LET paper == uncached_papers[i][1]
             result == Get(results_dict, ToString(i), EmptyDict)
             score == IF IsDict(result) THEN Get(result.v, "score", Num(50)) ELSE result
             kws == IF IsDict(result) THEN Get(result.v, "keywords", List(<<>>)) ELSE List(<<>>)
             summary == IF IsDict(result) THEN Get(result.v, "summary", Str(<<>>)) ELSE Str(<<>>)
             cache2 == Put(cache, paper,
                           Dict([score |-> score, keywords |-> kws, summary |-> summary]))
         IN  IF ~IsNum(score)
             THEN [ok |-> FALSE, cache |-> cache2, claude_ranked |-> claude_ranked]
             ELSE apply_scores(uncached_papers, i + 1, results_dict, cache2,
                               Append(claude_ranked, <<paper, Percent(score.v)>>))

\* s * min_claude * 0.9
scale_remaining(s, min_claude) == (s * min_claude * 9) \div (ScoreScale * 10)

\* lines 302-305
blend(claude_ranked, remaining) ==
    IF remaining = <<>> THEN claude_ranked
    ELSE LET min_claude == IF claude_ranked # <<>> THEN MinOf(Scores(claude_ranked)) ELSE 0
         IN  claude_ranked
                 \o [i \in 1..Len(remaining) |->
                        <<remaining[i][1], scale_remaining(remaining[i][2], min_claude)>>]

\* lines 310-313
keywords_of(ranked, cache) ==
    LET ids == {ranked[i][1] : i \in 1..Len(ranked)}
        shown == {id \in ids : IsDict(Get(cache, id, EmptyDict))}
    IN  [id \in shown |-> Get(Get(cache, id, EmptyDict).v, "keywords", List(<<>>))]

\* lines 310-315
summaries_of(ranked, cache) ==
    LET ids == {ranked[i][1] : i \in 1..Len(ranked)}
        shown == {id \in ids :
                    /\ IsDict(Get(cache, id, EmptyDict))
                    /\ Truthy(Get(Get(cache, id, EmptyDict).v, "summary", Null))}
    IN  [id \in shown |-> Get(cache, id, EmptyDict).v["summary"]]

(***************************************************************************)
(* One call of rank_with_claude, in two parts: up to the request to the    *)
(* service (lines 186-263), and from its answer on (lines 265-317).  The   *)
(* call keeps the files as it read them (config), the cache file it loaded *)
(* (before) and the mapping it holds in memory (cache); the fingerprint is *)
(* computed again from the files when the cache is saved.                  *)
(***************************************************************************)
NoCall ==
    [op |-> "none", papers |-> <<>>, top_n |-> 0, title_weight |-> 0, keywords |-> <<>>,
     outcome |-> "none", path |-> "none", keyword_ranked |-> <<>>, candidates |-> <<>>,
     remaining |-> <<>>, cached_papers |-> <<>>, uncached_papers |-> <<>>,
     requests |-> 0, response |-> NoRequest, ranked |-> <<>>,
     keywords_dict |-> <<>>, summaries_dict |-> <<>>, before |-> NoCacheFile,
     config |-> [keywords |-> NoFile, description |-> NoFile], cache |-> <<>>]

before_request(papers, top_n, fs, file) ==
    LET keywords == load_keywords(fs)
        keyword_ranked == rank_by_similarity(papers, keywords, DefaultTitleWeight)
        candidates == Prefix(keyword_ranked, top_n)
        remaining == Suffix(keyword_ranked, top_n)
        base == [NoCall EXCEPT !.op = "rank_with_claude", !.papers = papers,
                               !.top_n = top_n, !.title_weight = DefaultTitleWeight,
                               !.before = file, !.config = fs]
        ranked == [base EXCEPT !.keywords = keywords, !.keyword_ranked = keyword_ranked,
                               !.candidates = candidates, !.remaining = remaining]
        loaded == load_cache(file, fs)
    IN  IF papers = <<>>
        THEN [base EXCEPT !.outcome = "returned", !.path = "empty"]
        ELSE IF candidates = <<>> \/ keywords = <<>>
        THEN [ranked EXCEPT !.outcome = "returned", !.path = "no_candidates",
                            !.ranked = keyword_ranked]
        ELSE IF ~loaded.ok
        THEN [ranked EXCEPT !.outcome = "raised", !.path = "cache_error"]
        ELSE IF cached_type_error(candidates, loaded.cache)
        THEN [ranked EXCEPT !.outcome = "raised", !.path = "cached_type_error"]
        ELSE LET cached_papers == cached_part(candidates, loaded.cache)
                 uncached_papers == uncached_part(candidates, loaded.cache)
                 split == [ranked EXCEPT !.cached_papers = cached_papers,
                                         !.uncached_papers = uncached_papers,
                                         !.cache = loaded.cache]
                 claude_ranked == blend(SortDesc(cached_papers), remaining)
             IN  IF uncached_papers = <<>>
                 THEN [split EXCEPT !.outcome = "returned", !.path = "all_cached",
                                    !.ranked = claude_ranked,
                                    !.keywords_dict = keywords_of(claude_ranked, loaded.cache),
                                    !.summaries_dict = summaries_of(claude_ranked, loaded.cache)]
                 ELSE [split EXCEPT !.outcome = "pending", !.path = "request",
                                    !.requests = 1]

\* fs and file are the files at the time the answer arrives; the cache is
\* the mapping loaded before the request, not read again
after_response(st, response, fs, file) ==
    LET sent == [st EXCEPT !.response = response]
        parsed == parse_response(response.text)
        applied == apply_scores(st.uncached_papers, 1, parsed.dict, st.cache, st.cached_papers)
        claude_ranked == blend(SortDesc(applied.claude_ranked), st.remaining)
    IN  IF ~response.ok
        THEN [call |-> [sent EXCEPT !.outcome = "raised", !.path = "transport_error"],
              file |-> file]
        ELSE IF ~parsed.ok
        THEN [call |-> [sent EXCEPT !.outcome = "returned", !.path = "fallback",
                                    !.ranked = st.keyword_ranked],
              file |-> file]
        ELSE IF ~applied.ok
        THEN [call |-> [sent EXCEPT !.outcome = "raised", !.path = "type_error",
                                    !.cache = applied.cache],
              file |-> file]
        ELSE [call |-> [sent EXCEPT !.outcome = "returned", !.path = "scored",
                                    !.ranked = claude_ranked,
                                    !.cache = applied.cache,
                                    !.keywords_dict = keywords_of(claude_ranked, applied.cache),
                                    !.summaries_dict = summaries_of(claude_ranked, applied.cache)],
              file |-> save_cache(applied.cache, fs)]

\* a call during which no other process touches the files
rank_with_claude(papers, top_n, fs, file, response) ==
    LET st == before_request(papers, top_n, fs, file)
    IN  IF st.outcome = "pending" THEN after_response(st, response, fs, file)
        ELSE [call |-> st, file |-> file]

(***************************************************************************)
(* State machine.  A run of the script is a process: it starts a ranking,  *)
(* and a ranking that sends a request waits for the answer (the call of    *)
(* client.messages.create blocks).  While it waits, the configuration may  *)
(* be edited and the cache file cleared; the run goes on with what it read *)
(* before the request.                                                     *)
(***************************************************************************)
TopNs == (-1)..MaxTopN

TitleWeights == {1, 3}

KeywordLists ==
    {load_keywords(c) : c \in Configs}
        \cup {load_keywords([keywords |-> KwFileA, description |-> NoFile]), <<<<"D", "M">>>>}

\* a cache file written by the older version: bare scores
LegacyData(fs) ==
    [k \in {"p1", HashKey} |-> IF k = HashKey THEN Str(compute_config_hash(fs)) ELSE Num(72)]

InitialCacheFiles ==
    {NoCacheFile, CorruptCacheFile, JsonCacheFile(<<>>)}
        \cup {JsonCacheFile(LegacyData(c)) : c \in {c \in Configs : load_keywords(c) # <<>>}}

Init ==
    /\ files \in Configs
    /\ cacheFile \in InitialCacheFiles
    /\ call = NoCall

\* no process is running, or the one that runs waits for the service
Idle == call.op = "none" \/ call.outcome = "pending"

\* the user edits keywords.txt or research_description.txt
EditConfig ==
    /\ Idle
    /\ \E c \in Configs : c # files /\ files' = c
    /\ UNCHANGED <<cacheFile, call>>

\* scripts/fetch_papers.py --clear-cache
ClearCache ==
    /\ Idle
    /\ cacheFile.kind # "absent"
    /\ cacheFile' = NoCacheFile
    /\ UNCHANGED <<files, call>>

\* scripts/fetch_papers.py --rank, or a direct call of rank_by_similarity
RankBySimilarity ==
    \E papers \in Corpora, keywords \in KeywordLists, title_weight \in TitleWeights :
        /\ call.op = "none"
        /\ call' = [NoCall EXCEPT !.op = "rank_by_similarity", !.papers = papers,
                                  !.keywords = keywords, !.title_weight = title_weight,
                                  !.outcome = "returned",
                                  !.ranked = rank_by_similarity(papers, keywords, title_weight),
                                  !.before = cacheFile, !.config = files]
        /\ UNCHANGED <<files, cacheFile>>

\* scripts/fetch_papers.py --claude, up to the request to the service: the
\* call ends here when it sends none, and waits for the answer otherwise
RankWithClaude ==
    /\ call.op = "none"
    /\ \E papers \in Corpora, top_n \in TopNs :
          call' = before_request(papers, top_n, files, cacheFile)
    /\ UNCHANGED <<files, cacheFile>>

\* client.messages.create returns a text or raises, and the call goes on to
\* its end with the files as they are by then
ServiceAnswers ==
    /\ call.op = "rank_with_claude"
    /\ call.outcome = "pending"
    /\ \E response \in Responses(Len(call.uncached_papers)) :
          LET out == after_response(call, response, files, cacheFile)
          IN  /\ call' = out.call
              /\ cacheFile' = out.file
    /\ UNCHANGED files

\* the process that ran the ranking ends; its results are gone
Exit ==
    /\ call.op # "none"
    /\ call.outcome # "pending"
    /\ call' = NoCall
    /\ UNCHANGED <<files, cacheFile>>

Next ==
    EditConfig \/ ClearCache \/ RankBySimilarity \/ RankWithClaude \/ ServiceAnswers \/ Exit

Spec == Init /\ [][Next]_vars

(***************************************************************************)
(* Properties                                                              *)
(***************************************************************************)
InRank == call.op = "rank_with_claude"

\* the fingerprint of the files as they are now, and as the call read them
CurrentHash == Str(compute_config_hash(files))

LoadHash == Str(compute_config_hash(call.config))

\* the step in which the answer of the service arrives
AnswerArrives == call.outcome = "pending" /\ call'.outcome # "pending"

\* the step in which a call of rank_with_claude ends, with or without a request
CallEnds ==
    /\ call.outcome \in {"none", "pending"}
    /\ call'.op = "rank_with_claude"
    /\ call'.outcome # "pending"

StoredHash(file) == Get(file.data, HashKey, Null)

IdSet(ranked) == {ranked[i][1] : i \in 1..Len(ranked)}

ScoreOf(ranked, id) == ranked[CHOOSE i \in 1..Len(ranked) : ranked[i][1] = id][2]

\* the call got as far as splitting the candidates by the cache
Partitioned ==
    /\ InRank
    /\ call.candidates # <<>>
    /\ call.keywords # <<>>
    /\ call.before.kind # "corrupt"

\* the service answered with a text that holds no decodable JSON object
ParseFailed ==
    /\ InRank
    /\ call.requests = 1
    /\ call.response.ok
    /\ call.response.text \in MalformedTexts

\* the answer arrives and the call returns the plain TF-IDF ranking of its
\* papers and two empty maps, and leaves the cache file as it is
FallsBack ==
    /\ call'.outcome = "returned"
    /\ call'.papers = call.papers
    /\ call'.ranked = rank_by_similarity(call.papers, load_keywords(call.config),
                                         DefaultTitleWeight)
    /\ Len(call'.ranked) = Len(call.papers)
    /\ call'.keywords_dict = <<>>
    /\ call'.summaries_dict = <<>>
    /\ cacheFile' = cacheFile

\* C1: when the answer of the service holds no JSON object, or the object
\* does not decode, the call returns the plain TF-IDF ranking of all input
\* papers with an empty keyword map and an empty summary map, and the call
\* leaves the cache file as it is (no save_cache in that call).
C1_ParseFailureFallsBack ==
    [][(AnswerArrives /\ ParseFailed') => FallsBack]_vars

\* a parse failure with candidates, a tail and a cache file holding entries,
\* which another process cleared while the call waited for the answer
C1_Witness ==
    /\ ParseFailed
    /\ call.outcome = "returned"
    /\ Len(call.papers) = 3
    /\ call.remaining # <<>>
    /\ call.cached_papers # <<>>
    /\ call.response.text = TwoObjectsText
    /\ cacheFile = NoCacheFile

Stale == call.before.kind = "json" /\ StoredHash(call.before) # LoadHash

Fresh == call.before.kind = "json" /\ StoredHash(call.before) = LoadHash

\* the candidates found in the given cache data, in order, with the stored score
RECURSIVE StoredPart(_, _)
StoredPart(candidates, data) ==
    IF candidates = <<>> THEN <<>>
    ELSE LET id == Head(candidates)[1]
             stored == IF data[id].t = "dict" THEN data[id].v["score"].v ELSE data[id].v
         IN  (IF id \in DOMAIN data THEN <<<<id, (stored * ScoreScale) \div 100>>>> ELSE <<>>)
                 \o StoredPart(Tail(candidates), data)

\* C3: when the fingerprint stored in the cache file differs from the one of
\* the current sources, every candidate is uncached and sent to the service,
\* and the scores and the new cache file hold nothing of the old file; with
\* the same fingerprint the stored entries of the candidates are reused.
C3_StaleCacheIsEmpty ==
    Partitioned =>
        /\ Stale =>
              /\ call.cached_papers = <<>>
              /\ call.uncached_papers = call.candidates
              /\ call.requests = 1
              /\ call.path = "scored" =>
                    /\ DOMAIN cacheFile.data = IdSet(call.candidates) \cup {HashKey}
                    /\ \A id \in IdSet(call.candidates) :
                          ScoreOf(call.ranked, id)
                              = (cacheFile.data[id].v["score"].v * ScoreScale) \div 100
        /\ Fresh =>
              /\ call.cached_papers = StoredPart(call.candidates, call.before.data)
              /\ IdSet(call.uncached_papers) = IdSet(call.candidates) \ DOMAIN call.before.data

\* a stale file held an entry for a candidate, which was scored anew
C3_Witness ==
    /\ Partitioned
    /\ Stale
    /\ call.path = "scored"
    /\ \E id \in IdSet(call.candidates) :
          /\ id \in DOMAIN call.before.data
          /\ call.before.data[id] # cacheFile.data[id]

\* the call returned through the tail blending with papers beyond top_n
Blended ==
    /\ InRank
    /\ call.outcome = "returned"
    /\ call.path \in {"all_cached", "scored"}
    /\ call.remaining # <<>>

CandidatePart == SubSeq(call.ranked, 1, Len(call.candidates))

TailPart == SubSeq(call.ranked, Len(call.candidates) + 1, Len(call.ranked))

\* C2: after the tail blending, each remaining paper has its TF-IDF score
\* times the minimum candidate score times 0.9, stands after every candidate
\* with a score that exceeds no candidate's score, and the remaining papers
\* keep their TF-IDF order, whatever scores the cache or the service gave.
C2_TailBelowCandidates ==
    Blended =>
        /\ IdSet(CandidatePart) = IdSet(call.candidates)
        /\ Ids(TailPart) = Ids(call.remaining)
        /\ \A i \in 1..Len(TailPart) :
              TailPart[i][2]
                  = (call.remaining[i][2] * MinOf(Scores(CandidatePart)) * 9)
                        \div (ScoreScale * 10)
        /\ \A i \in 1..Len(TailPart) : \A j \in 1..Len(CandidatePart) :
              TailPart[i][2] <= CandidatePart[j][2]

\* C4: a cached candidate stored as a bare number v gives the same returned
\* triple as the structured entry {score: v, keywords: [], summary: ""} in
\* its place: score v/100, an empty keyword list in the keyword map and no
\* entry in the summary map.
C4_BareNumberLikeStructured ==
    \A id \in PaperIds :
        (/\ Partitioned
         /\ Fresh
         /\ call.outcome = "returned"
         /\ call.path \in {"all_cached", "scored"}
         /\ id \in IdSet(call.cached_papers)
         /\ call.before.data[id].t = "num") =>
            LET structured == Dict([score |-> call.before.data[id], keywords |-> List(<<>>),
                                    summary |-> Str(<<>>)])
                alt == rank_with_claude(call.papers, call.top_n, call.config,
                                        JsonCacheFile(Put(call.before.data, id, structured)),
                                        call.response).call
            IN  /\ alt.ranked = call.ranked
                /\ alt.keywords_dict = call.keywords_dict
                /\ alt.summaries_dict = call.summaries_dict
                /\ ScoreOf(call.ranked, id) = (call.before.data[id].v * ScoreScale) \div 100
                /\ id \in DOMAIN call.keywords_dict
                /\ call.keywords_dict[id] = List(<<>>)
                /\ id \notin DOMAIN call.summaries_dict

\* C5: a cache file that exists but does not parse is treated as no cache:
\* the call still returns a complete ranking, every candidate handled as
\* uncached, and raises nothing.
C5_UnreadableCacheIsNoCache ==
    (InRank /\ call.before.kind = "corrupt") =>
        /\ call.outcome = "returned"
        /\ Len(call.ranked) = Len(call.papers)
        /\ (call.candidates # <<>> /\ call.keywords # <<>>) =>
              call.uncached_papers = call.candidates

\* the request of the call failed
TransportFailed == InRank /\ call.requests = 1 /\ ~call.response.ok

\* C6: when the request to the service fails, the call does not raise: it
\* returns the plain TF-IDF ranking with empty maps, after that one request,
\* and writes nothing to the cache.
C6_TransportFailureFallsBack ==
    [][(AnswerArrives /\ TransportFailed') => FallsBack]_vars

\* C7: whatever the call returns is sorted by score, highest first, and
\* every score lies between 0 and 1.
C7_SortedScoresInUnitRange ==
    (InRank /\ call.outcome = "returned") =>
        /\ \A i \in 1..Len(call.ranked) :
              call.ranked[i][2] >= 0 /\ call.ranked[i][2] <= ScoreScale
        /\ \A i \in 1..(Len(call.ranked) - 1) :
              call.ranked[i][2] >= call.ranked[i + 1][2]

\* the TF-IDF ranking a call computed, and the raw scores behind it
SimRanking == IF InRank THEN call.keyword_ranked ELSE call.ranked

RawScores ==
    LET idf == compute_idf(call.papers, call.keywords)
    IN  [i \in 1..Len(call.papers) |->
            raw_score(call.papers[i], call.keywords, idf, call.title_weight)]

Scored ==
    /\ call.op \in {"rank_by_similarity", "rank_with_claude"}
    /\ call.papers # <<>>
    /\ call.keywords # <<>>

\* C8: with keywords, papers and a positive title weight, every normalised
\* score lies between 0 and 1; when the highest raw score is above 0 the
\* papers that have it get exactly 1, and when it is 0 every paper gets 0.
C8_NormalisedScores ==
    Scored =>
        LET raw == RawScores
            highest == MaxOf(raw)
        IN  /\ Len(SimRanking) = Len(call.papers)
            /\ \A i \in 1..Len(SimRanking) :
                  SimRanking[i][2] >= 0 /\ SimRanking[i][2] <= ScoreScale
            /\ highest >= 0
            /\ highest > 0 =>
                  \A i \in 1..Len(call.papers) :
                      raw[i] = highest => ScoreOf(SimRanking, call.papers[i]) = ScoreScale
            /\ highest = 0 => \A i \in 1..Len(SimRanking) : SimRanking[i][2] = 0

\* a direct call where two papers have different positive scores
C8_Witness ==
    /\ Scored
    /\ call.op = "rank_by_similarity"
    /\ call.title_weight = 1
    /\ MaxOf(RawScores) > 0
    /\ \E i \in 1..Len(call.ranked) :
          call.ranked[i][2] > 0 /\ call.ranked[i][2] < ScoreScale
    /\ \E i \in 1..Len(call.ranked) : call.ranked[i][2] = 0

RecordFields == {"score", "keywords", "summary"}

\* the cache file holds what the call loaded, one new record for each
\* candidate it sent, and the fingerprint
Grown ==
    LET loaded == IF Fresh THEN call.before.data ELSE <<>>
        sent == IdSet(call.uncached_papers)
    IN  /\ sent \cap DOMAIN loaded = {}
        /\ call.path = "scored" =>
              /\ cacheFile.kind = "json"
              /\ DOMAIN cacheFile.data = DOMAIN loaded \cup sent \cup {HashKey}
              /\ cacheFile.data[HashKey] = CurrentHash
              /\ \A k \in DOMAIN loaded : cacheFile.data[k] = loaded[k]
              /\ \A id \in sent :
                    /\ IsDict(cacheFile.data[id])
                    /\ DOMAIN cacheFile.data[id].v = RecordFields

\* C9: with an unchanged fingerprint the cache file only grows: a call that
\* scores new papers saves every entry it loaded, unchanged, one new record
\* for each uncached candidate, and the fingerprint; a call that scores
\* nothing leaves the file as it is; no stored paper is sent again.
C9_CacheOnlyGrows ==
    [][(CallEnds /\ call'.before.kind # "corrupt" /\ CurrentHash' = LoadHash') =>
          (Grown' /\ (call'.path # "scored" => cacheFile' = cacheFile))]_vars

\* a call that kept a structured and a bare entry and added a record
C9_Witness ==
    /\ InRank
    /\ Fresh
    /\ CurrentHash = LoadHash
    /\ call.path = "scored"
    /\ \E a, b \in DOMAIN call.before.data :
          /\ a \in PaperIds /\ call.before.data[a].t = "num"
          /\ b \in PaperIds /\ call.before.data[b].t = "dict"
    /\ call.uncached_papers # <<>>
    /\ call.cached_papers # <<>>

\* C10: a call issues at most one request: one when a candidate is not in
\* the loaded cache, none when there are no papers, no keywords, or every
\* candidate is cached; then the candidates are ranked with their stored
\* scores over 100 and the cache file is not rewritten.
C10_AtMostOneRequest ==
    InRank =>
        /\ call.requests \in {0, 1}
        /\ (call.papers = <<>> \/ load_keywords(call.config) = <<>>) => call.requests = 0
        /\ Partitioned =>
              LET loaded == IF Fresh THEN call.before.data ELSE <<>>
                  missing == IdSet(call.candidates) \ DOMAIN loaded
              IN  /\ missing # {} => call.requests = 1
                  /\ missing = {} =>
                        /\ call.requests = 0
                        /\ call.outcome = "returned"
                        /\ Len(CandidatePart) = Len(call.candidates)
                        /\ {CandidatePart[i] : i \in 1..Len(CandidatePart)}
                              = {StoredPart(call.candidates, loaded)[i] :
                                    i \in 1..Len(call.candidates)}
                        /\ cacheFile = call.before

\* every candidate of a three-paper call was cached, one as a bare score
C10_Witness ==
    /\ Partitioned
    /\ Len(call.candidates) = 3
    /\ call.uncached_papers = <<>>
    /\ call.requests = 0
    /\ call.outcome = "returned"
    /\ \E id \in IdSet(call.candidates) : call.before.data[id].t = "num"

\* what the service may have put under each index of its answer
Choices ==
    [1..Len(call.uncached_papers) -> NumericChoices]
        \cup OtherChoices(Len(call.uncached_papers))

\* the answer decodes to the object with the entries c; the value of a
\* member without an object around it decodes to an object that has no
\* index at all
IsAnswer(c) ==
    LET object == ObjectText(c)
    IN  \/ call.response.text = object
        \/ call.response.text = <<Txt>> \o object \o <<Txt>>
        \/ /\ call.response.text = StrayMemberText
           /\ \A i \in DOMAIN c : c[i] = Absent

\* the score, keywords and summary an entry of the answer gives; 50, no
\* keywords and no summary where it gives none
GivenScore(choice) ==
    CASE choice = "full" -> 80
      [] choice = "scoreonly" -> -10
      [] OTHER -> 50

GivenKeywords(choice) == IF choice = "full" THEN List(<<<<"d", "m">>>>) ELSE List(<<>>)

GivenSummary(choice) == IF choice = "full" THEN Str(<<"s">>) ELSE Str(<<>>)

\* the service has answered the request of the call with a text
Answered ==
    /\ InRank
    /\ call.requests = 1
    /\ call.outcome # "pending"
    /\ call.response.ok

\* an answer, every entry of which has a number as its score, that lacks
\* the entry of some uncached candidate
EntryMissing(c) ==
    /\ \A i \in DOMAIN c : c[i] # "text"
    /\ \E i \in DOMAIN c : c[i] = Absent

\* C11: when the decoded answer lacks the entry of the uncached candidate
\* at index i, the call still returns; that candidate gets score 0.5, and
\* the record {score: 50, keywords: [], summary: ""} is saved under its id;
\* every other uncached candidate j gets the score, keywords and summary
\* under index j, the indices following the TF-IDF order.
C11_MissingEntryDefaults ==
    Answered =>
        \A c \in Choices :
            (EntryMissing(c) /\ IsAnswer(c)) =>
                /\ call.outcome = "returned"
                /\ call.path = "scored"
                /\ Ids(call.uncached_papers)
                      = Ids(uncached_part(call.keyword_ranked,
                                          [id \in PaperIds \ IdSet(call.uncached_papers) |-> Null]))
                /\ \A i \in DOMAIN c :
                      LET id == call.uncached_papers[i][1]
                      IN  /\ ScoreOf(call.ranked, id) = (GivenScore(c[i]) * ScoreScale) \div 100
                          /\ cacheFile.data[id]
                                = Dict([score |-> Num(GivenScore(c[i])),
                                        keywords |-> GivenKeywords(c[i]),
                                        summary |-> GivenSummary(c[i])])
                          /\ call.keywords_dict[id] = GivenKeywords(c[i])
                          /\ (id \in DOMAIN call.summaries_dict) = (c[i] = "full")
                          /\ c[i] = "full" => call.summaries_dict[id] = GivenSummary(c[i])

\* of three uncached candidates the second has no entry, the others have
\* different ones
C11_Witness ==
    /\ Answered
    /\ call.outcome = "returned"
    /\ Len(call.uncached_papers) = 3
    /\ \E c \in Choices :
          /\ EntryMissing(c)
          /\ IsAnswer(c)
          /\ c[1] = "full" /\ c[2] = Absent /\ c[3] = "scoreonly"

\* an answer that is a member with no object around it: every candidate
\* got the default record
C11_StrayWitness ==
    /\ Answered
    /\ call.response.text = StrayMemberText
    /\ call.path = "scored"

\* C12: whatever way the call returns, the ranking holds every input paper
\* exactly once, and every key of the keyword map and of the summary map is
\* the id of a paper in the ranking.
C12_RankingIsPermutation ==
    (InRank /\ call.outcome = "returned") =>
        /\ Len(call.ranked) = Len(call.papers)
        /\ \A i \in 1..Len(call.papers) :
              Count({j \in 1..Len(call.ranked) : call.ranked[j][1] = call.papers[i]}) = 1
        /\ DOMAIN call.keywords_dict \subseteq IdSet(call.ranked)
        /\ DOMAIN call.summaries_dict \subseteq IdSet(call.ranked)

\* a call that scored one candidate anew, next to a cached one and a tail
C12_Witness ==
    /\ InRank
    /\ call.outcome = "returned"
    /\ call.path = "scored"
    /\ Len(call.papers) = 3
    /\ call.cached_papers # <<>>
    /\ call.uncached_papers # <<>>
    /\ call.remaining # <<>>
    /\ call.summaries_dict # <<>>

====
